---------------------------- MODULE Spec2Model ----------------------------
(***************************************************************************)
(* Leaf-level nearest-neighbour search of the fastlib binary tree          *)
(* (fastlib/u/nvasil/tree/node_impl.h): Node::Init, InitKNeighbors,        *)
(* ClosestNode, FindNearest and FindAllNearest.                            *)
(*                                                                         *)
(* The model is built with diagnostic = false, so every call on the        *)
(* ComputationsCounter is a no-op and the counter carries no state.        *)
(* Precision_t is modelled by the naturals 0..PrecisionMax; coordinates    *)
(* are small integers, so every real distance is below PrecisionMax.       *)
(***************************************************************************)
EXTENDS Integers, Sequences, FiniteSets, TLC

(* ------------------------------ bounds -------------------------------- *)
\* points in the datasets the leaves are cut from
NumPoints == 3
\* largest k of a k-NN search
MaxK == 2
\* calls made in one behaviour
MaxCalls == 2

(* ----------------------------- constants ------------------------------ *)
\* numeric_limits<Precision_t>::max(), the distance of a dummy entry
PrecisionMax == 1000
\* the id of a default-constructed Point_t
NoId == 0 - 1

\* the two leaves, and with the root above them the nodes that carry a box
Nodes == {1, 2}
Root == 3
TreeNodes == Nodes \cup {Root}
Coords == {<<0, 0>>, <<1, 0>>, <<0, 1>>}
Radii == {0, 1, 45}
\* the four points of the tie-break scenario, ids 0..3 in slot order
Scenario ==
  [n |-> 4,
   At |-> [i \in 0..3 |-> <<<<0, 0>>, <<1, 0>>, <<0, 1>>, <<5, 5>>>>[i + 1]],
   get_id |-> [i \in 0..3 |-> i]]
Bounds == {1, PrecisionMax}
Discriminators == {"same_id", "never"}

Min(a, b) == IF a < b THEN a ELSE b
Max(a, b) == IF a < b THEN b ELSE a

(* ------------------------ collaborators of Node ----------------------- *)
\* BoundingBox_t::Distance(point, point, dimension): squared Euclidean
RECURSIVE SumSq(_, _, _)
SumSq(p, q, d) ==
  IF d = 0 THEN 0 ELSE (p[d] - q[d]) * (p[d] - q[d]) + SumSq(p, q, d - 1)

Distance(p, q) == SumSq(p, q, Len(p))

\* PointIdDiscriminator_t::AreTheSame
AreTheSame(discriminator, id1, id2) ==
  discriminator = "same_id" /\ id1 = id2

\* Point_t: Alias(coordinates, id) and the default-constructed point
Point(coords, id) == [id |-> id, coords |-> coords]
DefaultPoint == [id |-> NoId, coords |-> <<>>]

\* PairComparator: by distance, ties by ascending point id
PairComparator(a, b) ==
  \/ a.first < b.first
  \/ a.first = b.first /\ a.second.id < b.second.id

\* the pair FindNearest pads with
Dummy == [first |-> PrecisionMax, second |-> DefaultPoint]

(* ------------------------------- Node --------------------------------- *)
\* Node::Init for a leaf: the slice [start, start + num_of_points) of the
\* dataset, slots numbered from 1
LeafInit(start, num_of_points, dataset) ==
  [num_of_points_ |-> num_of_points,
   points_ |-> [s \in 1..num_of_points |-> dataset.At[start + s - 1]],
   index_  |-> [s \in 1..num_of_points |-> dataset.get_id[start + s - 1]]]

\* the neighbors buffer as allocated: knns records per point, each with
\* the distance of a dummy and a default point
AllocKNeighbors(num_of_points, knns) ==
  [s \in 1..(num_of_points * knns) |->
     [point_id_ |-> NoId, nearest_ |-> DefaultPoint, distance_ |-> PrecisionMax]]

\* Node::InitKNeighbors: record i*knns+j gets the id of point i
InitKNeighbors(kneighbors, index, num_of_points, knns) ==
  [s \in 1..(num_of_points * knns) |->
     [kneighbors[s] EXCEPT !.point_id_ = index[((s - 1) \div knns) + 1]]]

\* ScanLeaf with a radius test that leaves out the points at exactly range
\* (strict), or without the discriminator test (unchecked)
RECURSIVE ScanLeafVariant(_, _, _, _, _, _, _, _)
ScanLeafVariant(this, i, query_point, nearest, range, isStdFloat, discriminator, strict) ==
  IF i > this.num_of_points_ THEN nearest
  ELSE IF strict /\ AreTheSame(discriminator, this.index_[i], query_point.id)
       THEN ScanLeafVariant(this, i + 1, query_point, nearest, range,
                            isStdFloat, discriminator, strict)
       ELSE LET dist == Distance(query_point.coords, this.points_[i])
                pair == [first |-> dist,
                         second |-> Point(this.points_[i], this.index_[i])]
                next == IF isStdFloat
                        THEN IF (IF strict THEN dist < range ELSE dist <= range)
                             THEN Append(nearest, pair) ELSE nearest
                        ELSE Append(nearest, pair)
            IN ScanLeafVariant(this, i + 1, query_point, next, range,
                               isStdFloat, discriminator, strict)

ScanLeafStrictRadius(this, i, query_point, nearest, range, isStdFloat, discriminator) ==
  ScanLeafVariant(this, i, query_point, nearest, range, isStdFloat,
                  discriminator, TRUE)

ScanLeafUnchecked(this, i, query_point, nearest, range, isStdFloat, discriminator) ==
  ScanLeafVariant(this, i, query_point, nearest, range, isStdFloat,
                  discriminator, FALSE)

\* the loop of FindNearest over the leaf's points, from slot i on
RECURSIVE ScanLeaf(_, _, _, _, _, _, _)
ScanLeaf(this, i, query_point, nearest, range, isStdFloat, discriminator) ==
  IF i > this.num_of_points_ THEN nearest
  ELSE IF AreTheSame(discriminator, this.index_[i], query_point.id)
       THEN ScanLeaf(this, i + 1, query_point, nearest, range, isStdFloat,
                     discriminator)
       ELSE LET dist == Distance(query_point.coords, this.points_[i])
                pair == [first |-> dist,
                         second |-> Point(this.points_[i], this.index_[i])]
                next == IF isStdFloat
                        THEN IF dist <= range THEN Append(nearest, pair)
                                              ELSE nearest
                        ELSE Append(nearest, pair)
            IN ScanLeaf(this, i + 1, query_point, next, range, isStdFloat,
                        discriminator)

\* TrimToK that cuts without sorting
TrimUnsorted(nearest, range) ==
  IF Len(nearest) > range
  THEN SubSeq(nearest, 1, range)
  ELSE nearest \o [j \in 1..(range - Len(nearest)) |-> Dummy]

\* TrimToK that erases the front of the sorted list instead of its tail
TrimKeepsTail(nearest, range) ==
  LET sorted == SortSeq(nearest, PairComparator)
  IN IF Len(sorted) > range
     THEN SubSeq(sorted, Len(sorted) - range + 1, Len(sorted))
     ELSE sorted \o [j \in 1..(range - Len(sorted)) |-> Dummy]

\* TrimToK that does not pad a short list
TrimNoPadding(nearest, range) ==
  LET sorted == SortSeq(nearest, PairComparator)
  IN IF Len(sorted) > range THEN SubSeq(sorted, 1, range) ELSE sorted

\* the k-NN tail of FindNearest: sort, then cut at the iterator begin+range
\* or pad with dummies up to range entries; the iterator is begin+range
\* also when the list is shorter than that, and is then not used
TrimToK(nearest, range) ==
  LET it == range
      sorted == SortSeq(nearest, PairComparator)
  IN IF Len(sorted) > range
     THEN SubSeq(sorted, 1, it)
     ELSE sorted \o [j \in 1..(range - Len(sorted)) |-> Dummy]

\* Node::FindNearest: the candidate list it leaves in `nearest`
FindNearest(this, query_point, nearest, range, isStdFloat, discriminator) ==
  LET scanned == ScanLeaf(this, 1, query_point, nearest, range, isStdFloat,
                          discriminator)
  IN IF isStdFloat THEN scanned ELSE TrimToK(scanned, range)

\* LoadTemp that starts every call from dummies instead of the stored neighbors
LoadTempDummies(kneighbors, i, range) == [j \in 1..range |-> Dummy]

\* FindAllNearest, k-NN: temp as read from the neighbors of point i
LoadTemp(kneighbors, i, range) ==
  [j \in 1..range |->
     [first  |-> kneighbors[(i - 1) * range + j].distance_,
      second |-> kneighbors[(i - 1) * range + j].nearest_]]

\* FindAllNearest, k-NN: temp written back to the neighbors of point i
StoreTemp(kneighbors, i, range, temp) ==
  [s \in DOMAIN kneighbors |->
     IF (i - 1) * range < s /\ s <= i * range
     THEN [kneighbors[s] EXCEPT
             !.distance_ = temp[s - (i - 1) * range].first,
             !.nearest_  = temp[s - (i - 1) * range].second]
     ELSE kneighbors[s]]

\* the point of the query node in slot i
QueryPoint(query_node, i) == Point(query_node.points_[i], query_node.index_[i])

\* one pass of the k-NN loop of FindAllNearest for point i; a failed
\* DEBUG_ASSERT stops the call before the write back
KnnIteration(this, query_node, i, acc, range, discriminator) ==
  LET temp == FindNearest(this, QueryPoint(query_node, i),
                          LoadTemp(acc.kneighbors, i, range), range, FALSE,
                          discriminator)
  IN IF Len(temp) # range
     THEN [acc EXCEPT !.asserted = FALSE]
     ELSE [kneighbors |-> StoreTemp(acc.kneighbors, i, range, temp),
           max_local_distance |->
             IF acc.max_local_distance < temp[Len(temp)].first
             THEN temp[Len(temp)].first ELSE acc.max_local_distance,
           asserted |-> acc.asserted]

RECURSIVE KnnLoop(_, _, _, _, _, _)
KnnLoop(this, query_node, i, acc, range, discriminator) ==
  IF i > query_node.num_of_points_ \/ ~acc.asserted THEN acc
  ELSE KnnLoop(this, query_node, i + 1,
               KnnIteration(this, query_node, i, acc, range, discriminator),
               range, discriminator)

\* UpdateBound with the comparison the other way round
UpdateBoundReversed(max_neighbor_distance, max_local_distance) ==
  IF max_neighbor_distance < max_local_distance
  THEN max_local_distance ELSE max_neighbor_distance

\* the bound FindAllNearest leaves in max_neighbor_distance, k-NN
UpdateBound(max_neighbor_distance, max_local_distance) ==
  IF max_neighbor_distance > max_local_distance
  THEN max_local_distance ELSE max_neighbor_distance

\* Node::FindAllNearest with an integral range
FindAllNearestKnn(this, query_node, max_neighbor_distance, range, discriminator) ==
  LET acc == KnnLoop(this, query_node, 1,
                     [kneighbors |-> query_node.kneighbors_,
                      max_local_distance |-> 0, asserted |-> TRUE],
                     range, discriminator)
  IN [kneighbors |-> acc.kneighbors,
      asserted |-> acc.asserted,
      max_neighbor_distance |->
        IF acc.asserted
        THEN UpdateBound(max_neighbor_distance, acc.max_local_distance)
        ELSE max_neighbor_distance]

\* the NNResult records FindAllNearest writes for point i, range mode
RangeRecords(this, query_node, i, range, discriminator) ==
  LET temp == FindNearest(this, QueryPoint(query_node, i), <<>>, range, TRUE,
                          discriminator)
  IN [j \in 1..Len(temp) |->
        [point_id_ |-> query_node.index_[i],
         nearest_  |-> temp[j].second,
         distance_ |-> temp[j].first]]

\* FindAllNearestRange that walks the query points from the last slot down
RECURSIVE FindAllNearestRangeBackwards(_, _, _, _, _)
FindAllNearestRangeBackwards(this, query_node, i, range, discriminator) ==
  IF i > query_node.num_of_points_ THEN <<>>
  ELSE FindAllNearestRangeBackwards(this, query_node, i + 1, range,
                                    discriminator)
       \o RangeRecords(this, query_node, i, range, discriminator)

\* Node::FindAllNearest with a floating-point range: every record of the
\* call, in the order of the fwrite calls
RECURSIVE FindAllNearestRange(_, _, _, _, _)
FindAllNearestRange(this, query_node, i, range, discriminator) ==
  IF i > query_node.num_of_points_ THEN <<>>
  ELSE RangeRecords(this, query_node, i, range, discriminator)
       \o FindAllNearestRange(this, query_node, i + 1, range, discriminator)

\* BoundingBox_t::Distance(box, box, dimension): squared gap between two
\* axis-aligned boxes
RECURSIVE BoxGapSq(_, _, _)
BoxGapSq(a, b, d) ==
  IF d = 0 THEN 0
  ELSE LET gap == Max(0, Max(a.lo[d] - b.hi[d], b.lo[d] - a.hi[d]))
       IN gap * gap + BoxGapSq(a, b, d - 1)

BoxDistance(a, b) == BoxGapSq(a, b, Len(a.lo))

\* ClosestNode with the comparison the other way round
ClosestNodeReversed(box, ptr1, ptr2, box1, box2) ==
  LET dist1 == BoxDistance(box, box1)
      dist2 == BoxDistance(box, box2)
  IN IF dist1 > dist2
     THEN <<[node |-> ptr1, dist |-> dist1], [node |-> ptr2, dist |-> dist2]>>
     ELSE <<[node |-> ptr2, dist |-> dist2], [node |-> ptr1, dist |-> dist1]>>

\* Node::ClosestNode: two (node, distance) pairs, the nearer first
ClosestNode(box, ptr1, ptr2, box1, box2) ==
  LET dist1 == BoxDistance(box, box1)
      dist2 == BoxDistance(box, box2)
  IN IF dist1 < dist2
     THEN <<[node |-> ptr1, dist |-> dist1], [node |-> ptr2, dist |-> dist2]>>
     ELSE <<[node |-> ptr2, dist |-> dist2], [node |-> ptr1, dist |-> dist1]>>

(* ------------------------------- state -------------------------------- *)
VARIABLES
  num_of_points_,         \* node -> number of points
  points_,                \* node -> coordinates of each slot
  index_,                 \* node -> dataset id of each slot
  box_,                   \* node -> bounding box
  kneighbors_,            \* node -> neighbors buffer, knns records per point
  range_nn_fp_,           \* the records written to the range file, in order
  knns,                   \* the k the neighbors buffers were made for
  discriminator,          \* the discriminator of the search
  max_neighbor_distance,  \* the caller's pruning bound after the last call
  nearest,                \* the candidate list a caller hands to FindNearest
  query,                  \* the query point that candidate list belongs to
  fatal,                  \* FATAL was reached: the process is gone
  assert_ok,              \* no DEBUG_ASSERT has failed
  visits,                 \* query node -> leaf -> k-NN calls made so far
  ncalls,                 \* calls made so far
  ret,                    \* the last call: its arguments and what it found
  worker                  \* the concurrent workers' positions and locals

vars == <<num_of_points_, points_, index_, box_, kneighbors_, range_nn_fp_,
          knns, discriminator, max_neighbor_distance, nearest, query, fatal,
          assert_ok, visits, ncalls, ret, worker>>

index == <<num_of_points_, points_, index_, box_, knns, discriminator, query>>

\* the fields of node n the search reads
NodeOf(n) ==
  [num_of_points_ |-> num_of_points_[n], points_ |-> points_[n],
   index_ |-> index_[n], kneighbors_ |-> kneighbors_[n]]

\* where the builder cuts a dataset of n points: leaf 1 is [0, Split(n)),
\* leaf 2 the rest
Split(n) == n \div 2
LeafStart(node, n) == IF node = 1 THEN 0 ELSE Split(n)
LeafCount(node, n) == IF node = 1 THEN Split(n) ELSE n - Split(n)

\* the id maps of a dataset: slot order, or the reverse of it
IdMaps(n) ==
  {[i \in 0..(n - 1) |-> i], [i \in 0..(n - 1) |-> n - 1 - i]}

\* every dataset of NumPoints points over the coordinates C, and the scenario
Datasets(C) ==
  {[n |-> NumPoints, At |-> at, get_id |-> g] :
     at \in [0..(NumPoints - 1) -> C], g \in IdMaps(NumPoints)}
  \cup {Scenario}

\* the box the builder hands to Init: the extent of the leaf's points
BoxOf(pts) ==
  [lo |-> [d \in 1..Len(pts[1]) |->
             CHOOSE m \in {pts[s][d] : s \in DOMAIN pts} :
               \A s \in DOMAIN pts : m <= pts[s][d]],
   hi |-> [d \in 1..Len(pts[1]) |->
             CHOOSE m \in {pts[s][d] : s \in DOMAIN pts} :
               \A s \in DOMAIN pts : m >= pts[s][d]]]

NoCall ==
  [op |-> "none", this |-> 0, query_node |-> 0, range |-> 0, bound |-> 0,
   before |-> 0, incoming |-> <<>>, ptr1 |-> 0, ptr2 |-> 0, closest |-> <<>>]

Idle == [w \in Nodes |-> [pc |-> "idle", this |-> 0, i |-> 0, temp |-> <<>>,
                          max_local_distance |-> 0, bound |-> 0]]

\* the leaves as built over one dataset, with neighbors buffers for k
BuiltLeaves(dataset, k, disc) ==
  LET leaf == [n \in Nodes |->
                 LeafInit(LeafStart(n, dataset.n), LeafCount(n, dataset.n),
                          dataset)]
  IN /\ num_of_points_ = [n \in Nodes |-> leaf[n].num_of_points_]
     /\ points_ = [n \in Nodes |-> leaf[n].points_]
     /\ index_ = [n \in Nodes |-> leaf[n].index_]
     /\ kneighbors_ =
          [n \in Nodes |->
             InitKNeighbors(AllocKNeighbors(leaf[n].num_of_points_, k),
                            leaf[n].index_, leaf[n].num_of_points_, k)]
     /\ knns = k
     /\ discriminator = disc
     /\ range_nn_fp_ = <<>>
     /\ max_neighbor_distance = PrecisionMax
     /\ nearest = <<>>
     /\ fatal = FALSE
     /\ assert_ok = TRUE
     /\ visits = [q \in Nodes |-> [r \in Nodes |-> 0]]
     /\ ncalls = 0
     /\ ret = NoCall
     /\ worker = Idle

\* the boxes the builder hands to Init: each leaf's extent, the root's over all
BuilderBoxes ==
  [n \in TreeNodes |->
     IF n \in Nodes THEN BoxOf(points_[n]) ELSE BoxOf(points_[1] \o points_[2])]

\* the tree as built over one dataset, with neighbors buffers for k
Built(dataset, k, disc) ==
  /\ BuiltLeaves(dataset, k, disc)
  /\ box_ = BuilderBoxes

(* ------------------------------ actions ------------------------------- *)
Running == ~fatal /\ assert_ok /\ ncalls < MaxCalls

\* this->FindAllNearest(query_node, bound, knns, ...), k-NN mode
KnnCall(this, query_node, bound) ==
  /\ Running
  /\ \E res \in {FindAllNearestKnn(NodeOf(this), NodeOf(query_node), bound,
                                   knns, discriminator)} :
        /\ kneighbors_' = [kneighbors_ EXCEPT ![query_node] = res.kneighbors]
        /\ max_neighbor_distance' = res.max_neighbor_distance
        /\ assert_ok' = res.asserted
  /\ visits' = [visits EXCEPT ![query_node][this] = @ + 1]
  /\ ncalls' = ncalls + 1
  /\ ret' = [NoCall EXCEPT !.op = "knn", !.this = this,
                           !.query_node = query_node, !.range = knns,
                           !.bound = bound]
  /\ UNCHANGED <<index, range_nn_fp_, nearest, fatal, worker>>

\* this->FindAllNearest(query_node, bound, range, ...), range mode; write
\* number `failed` of the call fails (0: none does) and FATAL ends the run;
\* writes fail only where the file may_fail
RangeCall(this, query_node, range, may_fail) ==
  /\ Running
  /\ \E recs \in {FindAllNearestRange(NodeOf(this), NodeOf(query_node), 1,
                                      range, discriminator)} :
      \E failed \in IF may_fail THEN 0..Len(recs) ELSE {0} :
        /\ range_nn_fp_' =
             range_nn_fp_ \o
               (IF failed = 0 THEN recs ELSE SubSeq(recs, 1, failed - 1))
        /\ fatal' = (failed # 0)
        /\ max_neighbor_distance' =
             IF failed = 0 THEN range ELSE max_neighbor_distance
  /\ ncalls' = ncalls + 1
  /\ ret' = [NoCall EXCEPT !.op = "range", !.this = this,
                           !.query_node = query_node, !.range = range,
                           !.before = Len(range_nn_fp_)]
  /\ UNCHANGED <<index, kneighbors_, nearest, assert_ok, visits, worker>>

\* leaf->FindNearest(query point, nearest, range, ...) on the caller's
\* candidate list, k-NN mode when isStdFloat is FALSE
FindNearestCall(this, range, isStdFloat) ==
  /\ Running
  /\ nearest' = FindNearest(NodeOf(this),
                            QueryPoint(NodeOf(query.node), query.slot),
                            nearest, range, isStdFloat, discriminator)
  /\ ncalls' = ncalls + 1
  /\ ret' = [NoCall EXCEPT !.op = IF isStdFloat THEN "fn_range" ELSE "fn_knn",
                           !.this = this, !.query_node = query.node,
                           !.range = range, !.incoming = nearest]
  /\ UNCHANGED <<index, kneighbors_, range_nn_fp_, max_neighbor_distance,
                 fatal, assert_ok, visits, worker>>

\* this->ClosestNode(ptr1, ptr2, ...)
ClosestNodeCall(this, ptr1, ptr2) ==
  /\ Running
  /\ ncalls' = ncalls + 1
  /\ ret' = [NoCall EXCEPT !.op = "closest", !.this = this, !.ptr1 = ptr1,
                           !.ptr2 = ptr2,
                           !.closest = ClosestNode(box_[this], ptr1, ptr2,
                                                   box_[ptr1], box_[ptr2])]
  /\ UNCHANGED <<index, kneighbors_, range_nn_fp_, max_neighbor_distance,
                 nearest, fatal, assert_ok, visits, worker>>

(* ----------------------- two concurrent workers ----------------------- *)
\* worker w runs leaf->FindAllNearest(node w, bound, knns, ...); its locals
\* are i, temp and max_local_distance, its bound the caller's own variable
WorkerStart(w, this) ==
  /\ worker[w].pc = "idle"
  /\ \A v \in Nodes : worker[v].this \in {0, this}
  /\ worker' = [worker EXCEPT ![w] = [pc |-> "load", this |-> this, i |-> 1,
                                       temp |-> <<>>, max_local_distance |-> 0,
                                       bound |-> max_neighbor_distance]]
  /\ UNCHANGED <<index, kneighbors_, range_nn_fp_, max_neighbor_distance,
                 nearest, fatal, assert_ok, visits, ncalls, ret>>

\* temp is filled from the neighbors of point i
WorkerLoad(w) ==
  /\ worker[w].pc = "load"
  /\ worker[w].i <= num_of_points_[w]
  /\ worker' = [worker EXCEPT ![w].pc = "find",
                              ![w].temp = LoadTemp(kneighbors_[w], worker[w].i, knns)]
  /\ UNCHANGED <<index, kneighbors_, range_nn_fp_, max_neighbor_distance,
                 nearest, fatal, assert_ok, visits, ncalls, ret>>

\* FindNearest on temp against the shared leaf
WorkerFind(w) ==
  /\ worker[w].pc = "find"
  /\ worker' = [worker EXCEPT
                  ![w].pc = "store",
                  ![w].temp = FindNearest(NodeOf(worker[w].this),
                                          QueryPoint(NodeOf(w), worker[w].i),
                                          worker[w].temp, knns, FALSE,
                                          discriminator)]
  /\ UNCHANGED <<index, kneighbors_, range_nn_fp_, max_neighbor_distance,
                 nearest, fatal, assert_ok, visits, ncalls, ret>>

\* StoreTarget that takes the leaf's own buffer for the query node's
StoreTargetThis(query_node, this) == this

\* the node whose neighbors buffer a call writes: its query node
StoreTarget(query_node, this) == query_node

\* temp is written back and max_local_distance kept up
WorkerStore(w) ==
  /\ worker[w].pc = "store"
  /\ assert_ok' = (assert_ok /\ Len(worker[w].temp) = knns)
  /\ IF Len(worker[w].temp) = knns
     THEN /\ kneighbors_' =
               [kneighbors_ EXCEPT
                  ![StoreTarget(w, worker[w].this)] =
                     StoreTemp(@, worker[w].i, knns, worker[w].temp)]
          /\ worker' = [worker EXCEPT
                          ![w].pc = "load",
                          ![w].i = @ + 1,
                          ![w].max_local_distance =
                             IF @ < worker[w].temp[knns].first
                             THEN worker[w].temp[knns].first ELSE @]
     ELSE /\ worker' = [worker EXCEPT ![w].pc = "aborted"]
          /\ UNCHANGED kneighbors_
  /\ UNCHANGED <<index, range_nn_fp_, max_neighbor_distance, nearest, fatal,
                 visits, ncalls, ret>>

\* past the last point: the bound is updated and the call returns
WorkerReturn(w) ==
  /\ worker[w].pc = "load"
  /\ worker[w].i > num_of_points_[w]
  /\ worker' = [worker EXCEPT
                  ![w].pc = "done",
                  ![w].bound = UpdateBound(@, worker[w].max_local_distance)]
  /\ UNCHANGED <<index, kneighbors_, range_nn_fp_, max_neighbor_distance,
                 nearest, fatal, assert_ok, visits, ncalls, ret>>

InitConc ==
  /\ \E dataset \in Datasets(Coords), k \in 1..MaxK, disc \in Discriminators :
       Built(dataset, k, disc)
  /\ query = [node |-> 0, slot |-> 0]

NextConc ==
  \E w \in Nodes :
    \/ \E this \in Nodes : WorkerStart(w, this)
    \/ WorkerLoad(w)
    \/ WorkerFind(w)
    \/ WorkerStore(w)
    \/ WorkerReturn(w)

SpecConc == InitConc /\ [][NextConc]_vars

(* --------------------------- specifications --------------------------- *)
\* the boxes a builder may hand to the three nodes
BoxCoords == 0..2
Boxes ==
  {b \in {[lo |-> <<a, c>>, hi |-> <<d, c>>] :
            a \in BoxCoords, d \in BoxCoords, c \in 0..1} : b.lo[1] <= b.hi[1]}

InitClosest ==
  /\ BuiltLeaves(Scenario, 1, "same_id")
  /\ box_ \in [TreeNodes -> Boxes]
  /\ query = [node |-> 0, slot |-> 0]

NextClosest ==
  \E this \in TreeNodes, ptr1 \in TreeNodes, ptr2 \in TreeNodes :
    ClosestNodeCall(this, ptr1, ptr2)

SpecClosest == InitClosest /\ [][NextClosest]_vars

\* a smaller input domain for the runs that mix every kind of call
SmallCoords == {<<0, 0>>, <<1, 0>>}
SmallRadii == {0}

Init ==
  /\ \E dataset \in {d \in Datasets(SmallCoords) : d.get_id[0] = 0 /\ d.n = NumPoints},
        k \in 1..MaxK, disc \in Discriminators :
       Built(dataset, k, disc)
  /\ \E n \in Nodes :
       \E s \in 1..num_of_points_[n] : query = [node |-> n, slot |-> s]

Next ==
  \/ \E this \in Nodes, query_node \in Nodes :
       KnnCall(this, query_node, max_neighbor_distance)
  \/ \E this \in Nodes, query_node \in Nodes, range \in SmallRadii :
       RangeCall(this, query_node, range, FALSE)
  \/ \E this \in Nodes, range \in 1..MaxK : FindNearestCall(this, range, FALSE)
  \/ \E this \in Nodes, range \in SmallRadii :
       FindNearestCall(this, range, TRUE)

Spec == Init /\ [][Next]_vars

InitKnn ==
  /\ \E dataset \in Datasets(Coords), k \in 1..MaxK, disc \in Discriminators :
       Built(dataset, k, disc)
  /\ query = [node |-> 0, slot |-> 0]

NextKnn ==
  \E this \in Nodes, query_node \in Nodes, bound \in Bounds :
    KnnCall(this, query_node, bound)

SpecKnn == InitKnn /\ [][NextKnn]_vars

InitRange ==
  /\ \E dataset \in Datasets(Coords), disc \in Discriminators :
       Built(dataset, 1, disc)
  /\ query = [node |-> 0, slot |-> 0]

NextRange ==
  \E this \in Nodes, query_node \in Nodes, range \in Radii :
    RangeCall(this, query_node, range, TRUE)

SpecRange == InitRange /\ [][NextRange]_vars

(* --------------------------- linear scan ------------------------------ *)
\* the neighbors record of rank j of the point in slot i of node q
Neighbor(q, i, j) == kneighbors_[q][(i - 1) * knns + j]

\* the leaves a k-NN call has been run against for query node q
VisitedLeaves(q) == {r \in Nodes : visits[q][r] > 0}
VisitedOnce(q) == \A r \in Nodes : visits[q][r] <= 1

\* the slots <<leaf, slot>> of the visited leaves that the discriminator
\* does not exclude for the point in slot i of node q
Eligible(q, i) ==
  {c \in UNION {{<<r, s>> : s \in 1..num_of_points_[r]} : r \in VisitedLeaves(q)} :
     ~AreTheSame(discriminator, index_[c[1]][c[2]], index_[q][i])}

ScanDistance(q, i, c) == Distance(points_[q][i], points_[c[1]][c[2]])
ScanId(c) == index_[c[1]][c[2]]

\* the j-th smallest distance of a linear scan, PrecisionMax beyond the last
KthDistance(q, i, j) ==
  IF j > Cardinality(Eligible(q, i)) THEN PrecisionMax
  ELSE CHOOSE d \in {ScanDistance(q, i, c) : c \in Eligible(q, i)} :
         /\ Cardinality({c \in Eligible(q, i) : ScanDistance(q, i, c) < d}) < j
         /\ Cardinality({c \in Eligible(q, i) : ScanDistance(q, i, c) <= d}) >= j

\* c comes before e in a scan ordered by distance, then id
ScanBefore(q, i, c, e) ==
  \/ ScanDistance(q, i, c) < ScanDistance(q, i, e)
  \/ /\ ScanDistance(q, i, c) = ScanDistance(q, i, e)
     /\ ScanId(c) < ScanId(e)

(* ------------------------------ claims -------------------------------- *)
\* C1: from sentinel-only neighbors, once k-NN FindAllNearest has been run
\* against each leaf of a set of leaves exactly once, in any order, the k
\* distances stored for every query point are the k smallest distances of a
\* linear scan over the non-excluded points of those leaves, in ascending order.
KnnMatchesLinearScan ==
  \A q \in Nodes :
    VisitedOnce(q) =>
      \A i \in 1..num_of_points_[q] :
        /\ \A j \in 1..knns : Neighbor(q, i, j).distance_ = KthDistance(q, i, j)
        /\ \A j \in 1..(knns - 1) :
             Neighbor(q, i, j).distance_ <= Neighbor(q, i, j + 1).distance_

\* a query node run once against each of the two leaves, with a point that
\* had more than k candidates and keeps two real, different distances
KnnMatchesLinearScanWitness ==
  \E q \in Nodes :
    /\ \A r \in Nodes : visits[q][r] = 1
    /\ knns = 2
    /\ \E i \in 1..num_of_points_[q] :
         /\ Cardinality(Eligible(q, i)) > knns
         /\ Neighbor(q, i, 1).distance_ < Neighbor(q, i, 2).distance_
         /\ Neighbor(q, i, 2).distance_ < PrecisionMax

\* C3: running k-NN FindAllNearest again with the same query node, leaf, k
\* and discriminator leaves every neighbors record of the query node as the
\* first run left it.
KnnRerunIdempotent ==
  [][(/\ ret.op = "knn" /\ ret'.op = "knn"
      /\ ncalls' = ncalls + 1
      /\ ret'.this = ret.this
      /\ ret'.query_node = ret.query_node)
     => kneighbors_'[ret.query_node] = kneighbors_[ret.query_node]]_vars

\* C6: in the k-NN result equal distances are in ascending id order, at the
\* cut at k the smaller ids are kept; (0,0), (1,0), (0,1), (5,5) with ids
\* 0..3, query id 0, k = 2 and self-exclusion give [(id 1, 1), (id 2, 1)].
IsScenario ==
  /\ points_ = [n \in Nodes |-> IF n = 1 THEN <<<<0, 0>>, <<1, 0>>>>
                                         ELSE <<<<0, 1>>, <<5, 5>>>>]
  /\ index_ = [n \in Nodes |-> IF n = 1 THEN <<0, 1>> ELSE <<2, 3>>]
  /\ knns = 2
  /\ discriminator = "same_id"
  /\ \A r \in Nodes : visits[1][r] = 1

TieAtTheCut ==
  \E q \in Nodes :
    /\ VisitedOnce(q)
    /\ \E i \in 1..num_of_points_[q] :
         \E c \in Eligible(q, i) :
           /\ ScanDistance(q, i, c) = Neighbor(q, i, knns).distance_
           /\ ScanId(c) > Neighbor(q, i, knns).nearest_.id
           /\ \A j \in 1..knns : Neighbor(q, i, j).nearest_.id # ScanId(c)

\* the worst k-th neighbor distance over the points of node q
WorstKthDistance(q) ==
  CHOOSE d \in {Neighbor(q, i, knns).distance_ : i \in 1..num_of_points_[q]} :
    \A i \in 1..num_of_points_[q] : Neighbor(q, i, knns).distance_ <= d

\* C10 as stated: whatever bound comes in, k-NN FindAllNearest hands back
\* the largest k-th neighbor distance over the points of the query node.
BoundIsWorstKthDistance ==
  ret.op = "knn" => max_neighbor_distance = WorstKthDistance(ret.query_node)

\* C10, amended: k-NN FindAllNearest hands back the smaller of the incoming
\* bound and the largest k-th neighbor distance over the points of the
\* query node, as those distances stand after the call.
BoundIsMinOfIncomingAndWorstKth ==
  ret.op = "knn" =>
    max_neighbor_distance = Min(ret.bound, WorstKthDistance(ret.query_node))

\* a call whose incoming bound was above a real worst k-th distance, and
\* one whose incoming bound was below it
BoundWitness ==
  /\ ret.op = "knn"
  /\ WorstKthDistance(ret.query_node) < PrecisionMax
  /\ WorstKthDistance(ret.query_node) > 1
  /\ ret.bound = 1

(* --------------------------- range claims ----------------------------- *)
\* the records the last call appended to the range file
Appended(fp, r) == SubSeq(fp, r.before + 1, Len(fp))

\* how many of the records recs pair query id qid with neighbor id nid
Records(recs, qid, nid) ==
  Cardinality({p \in DOMAIN recs :
                 recs[p].point_id_ = qid /\ recs[p].nearest_.id = nid})

\* the slot of id in the index of node n
SlotOf(idx, id) == CHOOSE s \in DOMAIN idx : idx[s] = id

\* C2 as stated: for every query point q the records of a range call that
\* returns are exactly the leaf's points within distance r of q: one record
\* each, none for a point farther than r.
RangeRecordsAreAllPointsWithin ==
  (ret.op = "range" /\ ~fatal) =>
    \A i \in 1..num_of_points_[ret.query_node], s \in 1..num_of_points_[ret.this] :
      Records(Appended(range_nn_fp_, ret), index_[ret.query_node][i],
              index_[ret.this][s])
        = IF Distance(points_[ret.query_node][i], points_[ret.this][s]) <= ret.range
          THEN 1 ELSE 0

\* C2, amended: for every query point q the records of a range call that
\* returns are exactly the leaf's points that the discriminator does not
\* exclude for q and that lie within distance r of q: one record each with
\* that distance, none for any other point.
RangeRecordsAreEligiblePointsWithin ==
  (ret.op = "range" /\ ~fatal) =>
    /\ \A i \in 1..num_of_points_[ret.query_node], s \in 1..num_of_points_[ret.this] :
         Records(Appended(range_nn_fp_, ret), index_[ret.query_node][i],
                 index_[ret.this][s])
           = IF /\ Distance(points_[ret.query_node][i], points_[ret.this][s])
                     <= ret.range
                /\ ~AreTheSame(discriminator, index_[ret.this][s],
                               index_[ret.query_node][i])
             THEN 1 ELSE 0
    /\ \A p \in DOMAIN Appended(range_nn_fp_, ret) :
         LET rec == Appended(range_nn_fp_, ret)[p]
         IN /\ rec.point_id_ \in {index_[ret.query_node][i] :
                                    i \in 1..num_of_points_[ret.query_node]}
            /\ \E s \in 1..num_of_points_[ret.this] :
                 /\ rec.nearest_ = Point(points_[ret.this][s], index_[ret.this][s])
                 /\ rec.distance_ =
                      Distance(points_[ret.query_node]
                                 [SlotOf(index_[ret.query_node], rec.point_id_)],
                               points_[ret.this][s])

\* a range call that returned, with a point kept and the query point itself
\* excluded although it is within the radius
RangeRecordsWitness ==
  /\ ret.op = "range" /\ ~fatal
  /\ discriminator = "same_id"
  /\ ret.this = ret.query_node
  /\ \E i \in 1..num_of_points_[ret.query_node] :
       /\ \E s \in 1..num_of_points_[ret.this] :
            /\ s # i
            /\ Distance(points_[ret.query_node][i], points_[ret.this][s])
                 <= ret.range
       /\ Records(Appended(range_nn_fp_, ret), index_[ret.query_node][i],
                  index_[ret.query_node][i]) = 0

IsPrefix(a, b) == Len(a) <= Len(b) /\ SubSeq(b, 1, Len(a)) = a

\* the records recs of call r come grouped by query point in the query
\* node's slot order, each group in the leaf's slot order
InSlotOrder(recs, r) ==
  \A a \in DOMAIN recs, b \in DOMAIN recs :
    a < b =>
      LET qa == SlotOf(index_[r.query_node], recs[a].point_id_)
          qb == SlotOf(index_[r.query_node], recs[b].point_id_)
          sa == SlotOf(index_[r.this], recs[a].nearest_.id)
          sb == SlotOf(index_[r.this], recs[b].nearest_.id)
      IN qa < qb \/ (qa = qb /\ sa < sb)

\* C9: a range call only appends after the records already in the file and
\* changes none of them; what it appends is grouped by query point in the
\* query node's slot order, each group in the leaf's slot order.
RangeFileAppendOnlyInSlotOrder ==
  [][/\ IsPrefix(range_nn_fp_, range_nn_fp_')
     /\ ret'.before = Len(range_nn_fp_)
     /\ InSlotOrder(Appended(range_nn_fp_', ret'), ret')]_vars

\* a second call has appended behind earlier records, two groups of two
\* records, one of them in descending distance and descending id
RangeFileWitness ==
  /\ ret.op = "range" /\ ret.before > 0
  /\ LET recs == Appended(range_nn_fp_, ret)
     IN /\ Len(recs) >= 4
        /\ recs[1].point_id_ = recs[2].point_id_
        /\ recs[3].point_id_ # recs[2].point_id_
        /\ recs[3].point_id_ = recs[4].point_id_
        /\ recs[3].distance_ > recs[4].distance_
        /\ recs[3].nearest_.id > recs[4].nearest_.id

(* ------------------------ FindNearest claims -------------------------- *)
\* the entries of a candidate list that carry a real distance
RealEntries(list) == {p \in DOMAIN list : list[p].first < PrecisionMax}

\* the slots of leaf `this` the discriminator does not exclude for id qid
EligibleSlots(this, qid) ==
  {s \in 1..num_of_points_[this] : ~AreTheSame(discriminator, index_[this][s], qid)}

\* the id of the query point the caller's candidate list belongs to
QueryId == index_[query.node][query.slot]

\* C4: k-NN FindNearest leaves exactly k entries whatever the leaf and the
\* incoming list, also with fewer than k eligible points and with the query
\* point excluded; the entries beyond the real candidates are dummies with
\* the largest distance; the size assertion of FindAllNearest never fails.
AlwaysExactlyKEntries ==
  /\ assert_ok
  /\ \A q \in Nodes : Len(kneighbors_[q]) = num_of_points_[q] * knns
  /\ ret.op = "fn_knn" =>
       LET real == Min(ret.range,
                       Cardinality(RealEntries(ret.incoming))
                         + Cardinality(EligibleSlots(ret.this, QueryId)))
       IN /\ Len(nearest) = ret.range
          /\ \A j \in 1..Len(nearest) :
               IF j <= real
               THEN nearest[j].first < PrecisionMax /\ nearest[j].second.id # NoId
               ELSE nearest[j] = Dummy

\* k-NN FindNearest on a list shorter than k, against the query point's own
\* leaf with self-exclusion: one real candidate, then a dummy
AlwaysExactlyKEntriesWitness ==
  /\ ret.op = "fn_knn"
  /\ discriminator = "same_id"
  /\ ret.this = query.node
  /\ Len(ret.incoming) < ret.range
  /\ Cardinality(EligibleSlots(ret.this, QueryId)) < ret.range
  /\ Cardinality(EligibleSlots(ret.this, QueryId)) < num_of_points_[ret.this]
  /\ nearest[1].first < PrecisionMax
  /\ nearest[ret.range] = Dummy

\* C5: with a discriminator that excludes self-matches, from sentinel-only
\* neighbors and an empty range file, no neighbors record, range record or
\* candidate of query point X ever names X as the neighbor.
NoSelfNeighbor ==
  discriminator = "same_id" =>
    /\ \A q \in Nodes : \A i \in 1..num_of_points_[q], j \in 1..knns :
         /\ Neighbor(q, i, j).nearest_.id # index_[q][i]
         /\ Neighbor(q, i, j).point_id_ = index_[q][i]
    /\ \A p \in DOMAIN range_nn_fp_ :
         range_nn_fp_[p].nearest_.id # range_nn_fp_[p].point_id_
    /\ \A p \in DOMAIN nearest : nearest[p].second.id # QueryId

\* a node searched against itself in k-NN mode and then in range mode, with
\* a real neighbor found and records written
NoSelfNeighborWitness ==
  /\ discriminator = "same_id"
  /\ ret.op = "range" /\ ret.this = ret.query_node
  /\ Len(Appended(range_nn_fp_, ret)) > 0
  /\ visits[ret.query_node][ret.query_node] = 1
  /\ Neighbor(ret.query_node, 1, 1).distance_ < PrecisionMax

(* ------------------------- ClosestNode claim -------------------------- *)
\* C7: ClosestNode returns the two candidate nodes, each paired with its
\* own box distance from this node, the first pair's distance <= the
\* second's, also when the two distances are equal.
ClosestNodeOrdered ==
  ret.op = "closest" =>
    LET a == [node |-> ret.ptr1,
              dist |-> BoxDistance(box_[ret.this], box_[ret.ptr1])]
        b == [node |-> ret.ptr2,
              dist |-> BoxDistance(box_[ret.this], box_[ret.ptr2])]
    IN /\ ret.closest = <<a, b>> \/ ret.closest = <<b, a>>
       /\ ret.closest[1].dist <= ret.closest[2].dist

\* two different nodes: the second argument strictly nearer than the first
ClosestNodeOrderedWitness ==
  /\ ret.op = "closest"
  /\ ret.ptr1 # ret.ptr2
  /\ ret.closest[1].node = ret.ptr2
  /\ 0 < ret.closest[1].dist
  /\ ret.closest[1].dist < ret.closest[2].dist

\* two different nodes at the same positive distance
ClosestNodeTie ==
  /\ ret.op = "closest"
  /\ ret.ptr1 # ret.ptr2
  /\ box_[ret.ptr1] # box_[ret.ptr2]
  /\ 0 < ret.closest[1].dist
  /\ ret.closest[1].dist = ret.closest[2].dist

(* ------------------------- concurrency claim -------------------------- *)
\* the neighbors buffer node q starts with
InitialKNeighbors(q) ==
  InitKNeighbors(AllocKNeighbors(num_of_points_[q], knns), index_[q],
                 num_of_points_[q], knns)

\* what the call of worker w leaves when it runs alone
Alone(w) ==
  FindAllNearestKnn(NodeOf(worker[w].this),
                    [NodeOf(w) EXCEPT !.kneighbors_ = InitialKNeighbors(w)],
                    PrecisionMax, knns, discriminator)

\* C8: two workers run k-NN FindAllNearest against the same leaf, each with
\* its own query node; under every interleaving a neighbors buffer changes
\* only in a step of the worker that owns it, the leaf's points and ids are
\* never written, and each finished worker has left the neighbors buffer
\* (and bound) it leaves when it runs alone.
WorkersIndependent ==
  [][/\ \A n \in Nodes :
          kneighbors_'[n] # kneighbors_[n] =>
            /\ worker[n].pc = "store"
            /\ \A m \in Nodes \ {n} : worker'[m] = worker[m]
     /\ points_' = points_ /\ index_' = index_
     /\ \A w \in Nodes :
          worker'[w].pc = "done" =>
            /\ kneighbors_'[w] = Alone(w).kneighbors
            /\ worker'[w].bound = Alone(w).max_neighbor_distance]_vars

\* worker 1 has finished with real neighbors while worker 2, against the
\* same leaf, is between its read and its write of a later point
WorkersIndependentWitness ==
  /\ worker[1].pc = "done"
  /\ worker[2].pc = "store" /\ worker[2].i = 2
  /\ worker[1].this = 2
  /\ Neighbor(1, 1, 1).distance_ < PrecisionMax
  /\ Neighbor(2, 1, 1).distance_ < PrecisionMax

(* ------------------------- monotonicity claim ------------------------- *)
\* the smallest distance from the point in slot i of node q to a point of
\* leaf r that the discriminator does not exclude, PrecisionMax if none
NearestIn(q, i, r) ==
  LET ds == {Distance(points_[q][i], points_[r][s]) :
               s \in {t \in 1..num_of_points_[r] :
                        ~AreTheSame(discriminator, index_[r][t], index_[q][i])}}
  IN IF ds = {} THEN PrecisionMax
     ELSE CHOOSE d \in ds : \A e \in ds : d <= e

\* C11: over any sequence of k-NN FindAllNearest calls with a fixed k, against
\* any leaves, the distance stored at each rank of each query point's
\* neighbors never increases from one call to the next, and the bound a call
\* hands back is never larger than the bound passed into it.
KnnDistancesNeverIncrease ==
  [][/\ \A q \in Nodes : \A i \in 1..num_of_points_[q], j \in 1..knns :
          kneighbors_'[q][(i - 1) * knns + j].distance_
            <= kneighbors_[q][(i - 1) * knns + j].distance_
     /\ ret'.op = "knn" => max_neighbor_distance' <= ret'.bound]_vars

\* the second of two calls on one query node, against the other leaf: the
\* first call left a real nearest distance for some point, the second one
\* has replaced it by a smaller one, and has handed back a bound below the
\* one it was given
KnnDistancesNeverIncreaseWitness ==
  /\ ret.op = "knn" /\ ncalls = 2
  /\ \A r \in Nodes : visits[ret.query_node][r] = 1
  /\ \E i \in 1..num_of_points_[ret.query_node] :
       \E first \in Nodes \ {ret.this} :
         /\ NearestIn(ret.query_node, i, first) < PrecisionMax
         /\ Neighbor(ret.query_node, i, 1).distance_
              < NearestIn(ret.query_node, i, first)
  /\ max_neighbor_distance < ret.bound

=============================================================================
